---- MODULE Spec2Model ----
(***************************************************************************)
(* The paper reader backend as a state machine over a small POSIX file     *)
(* system: directory entries naming inodes, inode data, open file          *)
(* descriptions and flock(2) locks.  The note store (src/api/notes.py)     *)
(* over the workspace path resolver (src/config.py) runs each handler's    *)
(* system calls one step at a time, so that worker processes interleave as *)
(* the operating system lets them.  The paper store (src/api/papers.py),   *)
(* the note listing, the assistant's ask (src/api/ai.py) and the PDF text  *)
(* extraction (src/api/pdf.py) answer in one step each, for one client.    *)
(***************************************************************************)
EXTENDS Integers, Sequences, FiniteSets, TLC

VARIABLES
    dirs,       \* the directories that exist: <<>>, the workspace root, and its
                \* subdirectories by name
    dirents,    \* <<directory, file name>> -> inode, for every existing file
    idata,      \* inode -> data, for every inode a name or a descriptor refers to
    task,       \* per worker: the handler it runs, its locals and its position
    log         \* completed calls with their responses, oldest first

vars == <<dirs, dirents, idata, task, log>>

(***************************************************************************)
(* Bounds of the model.                                                    *)
(***************************************************************************)
NumProcs == 2
MaxCalls == 3

Procs == 1..NumProcs

(***************************************************************************)
(* Characters and strings.  A string is a sequence of characters; LF and   *)
(* CR stand for "\n" and "\r".                                             *)
(***************************************************************************)
LF == "LF"
CR == "CR"

Alnum == {"a", "b", "c", "d", "e", "f", "k", "l", "m", "n", "o", "p", "q", "r", "t", "x",
          "B", "D", "F", "P", "1", "2", "3"}

NoteMd  == <<"n", "o", "t", "e", ".", "m", "d">>
MdExt   == <<".", "m", "d">>
PdfExt  == <<".", "p", "d", "f">>
LockExt == <<".", "l", "o", "c", "k">>

\* notes.py:387, the separator patch inserts
Separator == <<LF, LF, "-", "-", "-", LF, LF>>

EndsWith(s, suffix) ==
    /\ Len(s) >= Len(suffix)
    /\ SubSeq(s, Len(s) - Len(suffix) + 1, Len(s)) = suffix

RECURSIVE Flatten(_)
Flatten(ss) == IF ss = <<>> THEN <<>> ELSE Head(ss) \o Flatten(Tail(ss))

Min(S) == CHOOSE x \in S : \A y \in S : x <= y

(***************************************************************************)
(* Text-mode file I/O of pathlib (newline=None).                           *)
(***************************************************************************)
\* os.linesep on the POSIX hosts fcntl exists on
LineSep == <<LF>>

\* Path.write_text: every "\n" of the text is written as os.linesep
WriteTranslate(s) == Flatten([i \in 1..Len(s) |-> IF s[i] = LF THEN LineSep ELSE <<s[i]>>])

\* Path.read_text: universal newlines, "\r\n" and a lone "\r" are read as "\n"
RECURSIVE ReadTranslate(_)
ReadTranslate(s) ==
    IF s = <<>> THEN <<>>
    ELSE IF Head(s) = CR
         THEN IF Len(s) >= 2 /\ s[2] = LF
              THEN <<LF>> \o ReadTranslate(Tail(Tail(s)))
              ELSE <<LF>> \o ReadTranslate(Tail(s))
         ELSE <<Head(s)>> \o ReadTranslate(Tail(s))

\* write(2) of `bytes` at offset 0 of a file holding `old`
Overwrite(old, bytes) ==
    IF Len(bytes) >= Len(old) THEN bytes
    ELSE bytes \o SubSeq(old, Len(bytes) + 1, Len(old))

(***************************************************************************)
(* Workspace path resolver (config.py).  A directory is named by its name  *)
(* under the workspace root; the empty name is the workspace root itself   *)
(* (workspace_root / "" == workspace_root), which is in `dirs` while it    *)
(* exists.                                                                 *)
(***************************************************************************)
\* the name of the workspace root directory ("./workspaces")
RootName == <<"w">>

\* a sanitizer that lets dots through
SanitizeKeepsDots(id) == SelectSeq(id, LAMBDA c : c \in Alnum \/ c \in {"-", "_", " ", "."})

\* notes.py:94, notes.py:163, papers.py:121
Sanitize(id) == SelectSeq(id, LAMBDA c : c \in Alnum \/ c \in {"-", "_", " "})

\* config.py:38, workspace_root / paper_name; pathlib drops a "." component
get_paper_dir(paper_name) == IF paper_name = <<".">> THEN <<>> ELSE paper_name

PaperDirOf(id) == get_paper_dir(Sanitize(id))

DirExists(d) == d \in dirs

DirName(d) == IF d = <<>> THEN RootName ELSE d

Exists(path) == path \in DOMAIN dirents

\* Path.stem: the name without its last suffix; a leading dot starts no
\* suffix and neither does a trailing one
RECURSIVE LastDot(_)
LastDot(n) == IF n = <<>> THEN 0
              ELSE IF n[Len(n)] = "." THEN Len(n)
              ELSE LastDot(SubSeq(n, 1, Len(n) - 1))

Stem(n) == IF LastDot(n) <= 1 \/ LastDot(n) = Len(n) THEN n ELSE SubSeq(n, 1, LastDot(n) - 1)

\* paper_dir.glob("*.md"): the names of the directory that end in ".md"
GlobMd(d) == {pth \in DOMAIN dirents : pth[1] = d /\ EndsWith(pth[2], MdExt)}

NoPath == <<>>

\* find_note: the paths it can return; the order of a directory scan is the
\* file system's, so md_files[0] is any of the matches
find_note(d) ==
    IF ~DirExists(d) THEN {NoPath}
    ELSE IF Exists(<<d, NoteMd>>) THEN {<<d, NoteMd>>}
    ELSE IF \E f \in GlobMd(d) : Stem(f[2]) = DirName(d)
         THEN {f \in GlobMd(d) : Stem(f[2]) = DirName(d)}
    ELSE IF GlobMd(d) # {} THEN GlobMd(d)
    ELSE {NoPath}

get_note_path(paper_name) ==
    {IF note # NoPath THEN note ELSE <<get_paper_dir(paper_name), paper_name \o MdExt>> :
        note \in find_note(get_paper_dir(paper_name))}

LockPath(path) == <<path[1], path[2] \o LockExt>>

(***************************************************************************)
(* Inodes.                                                                 *)
(***************************************************************************)
NoFd == 0

FreshIno == Min((1..(Cardinality(DOMAIN idata) + 1)) \ DOMAIN idata)

Range(f) == {f[x] : x \in DOMAIN f}

\* an inode lives while a name or an open descriptor refers to it
Reap(data, de, tk) ==
    [i \in {j \in DOMAIN data : j \in Range(de) \/ \E p \in Procs : j \in {tk[p].lockFd, tk[p].fileFd}}
        |-> data[i]]

Unlinked(de, path) == [q \in DOMAIN de \ {path} |-> de[q]]

Linked(de, path, ino) == [q \in DOMAIN de \cup {path} |-> IF q = path THEN ino ELSE de[q]]

(***************************************************************************)
(* Tasks.                                                                   *)
(***************************************************************************)
Idle == [pc |-> "idle", op |-> "none", id |-> <<>>, arg |-> <<>>, path |-> NoPath,
         lockFd |-> NoFd, fileFd |-> NoFd, buf |-> <<>>, exc |-> "none"]

\* a completed call: the request, the HTTP status, the content of the response
\* body and, for a 500, the call that raised
Response(p, op, id, arg, status, out, err) ==
    [op |-> op, id |-> id, arg |-> arg, status |-> status, out |-> out, err |-> err]

Started(op, id, arg, path, pc) ==
    [Idle EXCEPT !.pc = pc, !.op = op, !.id = id, !.arg = arg, !.path = path, !.buf = arg]

InFlight == Cardinality({p \in Procs : task[p].pc # "idle"})

\* a request goes to the first idle worker (idle workers do not differ)
CanCall(p) ==
    /\ task[p].pc = "idle"
    /\ \A q \in Procs : q < p => task[q].pc # "idle"
    /\ Len(log) + InFlight < MaxCalls

(***************************************************************************)
(* Handlers, up to the lock (notes.py).                                    *)
(***************************************************************************)
\* a create that writes without looking for a note
CreateNoteUnchecked(p, id, content) ==
    /\ CanCall(p)
    /\ dirs' = dirs \cup {<<>>, PaperDirOf(id)}
    /\ \E note_path \in get_note_path(Sanitize(id)) :
          task' = [task EXCEPT ![p] = Started("create", id, content, note_path, "enter")]
    /\ UNCHANGED <<dirents, idata, log>>

\* create_note, lines 160-181: mkdir, resolve the note path, 409 if it exists
CreateNote(p, id, content) ==
    /\ CanCall(p)
    /\ LET safe_id == Sanitize(id)
           paper_dir == get_paper_dir(safe_id)
       IN /\ dirs' = dirs \cup {<<>>, paper_dir}
          /\ \E note_path \in get_note_path(safe_id) :
                IF Exists(note_path)
                THEN /\ log' = Append(log, Response(p, "create", id, content, 409, <<>>, "none"))
                     /\ UNCHANGED task
                ELSE /\ task' = [task EXCEPT ![p] = Started("create", id, content, note_path, "enter")]
                     /\ UNCHANGED log
    /\ UNCHANGED <<dirents, idata>>

\* the shared opening of get_note, update_note, patch_note and delete_note:
\* resolve the note path, 404 if it does not exist
Lookup(p, op, id, arg, pc) ==
    /\ CanCall(p)
    /\ \E note_path \in get_note_path(Sanitize(id)) :
          IF ~Exists(note_path)
          THEN /\ log' = Append(log, Response(p, op, id, arg, 404, <<>>, "none"))
               /\ UNCHANGED task
          ELSE /\ task' = [task EXCEPT ![p] = Started(op, id, arg, note_path, pc)]
               /\ UNCHANGED log
    /\ UNCHANGED <<dirs, dirents, idata>>

\* get_note, lines 253-262
GetNote(p, id) == Lookup(p, "get", id, <<>>, "enter")

\* an update that writes whether or not the note exists
UpdateNoteUnchecked(p, id, content) ==
    /\ CanCall(p)
    /\ \E note_path \in get_note_path(Sanitize(id)) :
          task' = [task EXCEPT ![p] = Started("update", id, content, note_path, "enter")]
    /\ UNCHANGED <<dirs, dirents, idata, log>>

\* update_note, lines 328-337
UpdateNote(p, id, content) == Lookup(p, "update", id, content, "enter")

\* patch_note, lines 371-380
PatchNote(p, id, content) == Lookup(p, "patch", id, content, "enter")

\* delete_note, lines 416-425
DeleteNote(p, id) == Lookup(p, "delete", id, <<>>, "unlink")

\* a delete that reports success and leaves the file
DeleteUnlinkKeeps(p) ==
    LET t == task[p] IN
    /\ t.pc = "unlink"
    /\ log' = Append(log, Response(p, t.op, t.id, t.arg, 200, <<>>, "none"))
    /\ task' = [task EXCEPT ![p] = Idle]
    /\ UNCHANGED <<dirs, dirents, idata>>

\* delete_note, lines 426-438: note_path.unlink() and the response
DeleteUnlink(p) ==
    LET t == task[p] IN
    /\ t.pc = "unlink"
    /\ IF Exists(t.path)
       THEN /\ dirents' = Unlinked(dirents, t.path)
            /\ idata' = Reap(idata, dirents', task)
            /\ log' = Append(log, Response(p, t.op, t.id, t.arg, 200, <<>>, "none"))
       ELSE /\ log' = Append(log, Response(p, t.op, t.id, t.arg, 500, <<>>, "unlink"))
            /\ UNCHANGED <<dirents, idata>>
    /\ task' = [task EXCEPT ![p] = Idle]
    /\ UNCHANGED dirs

(***************************************************************************)
(* NoteFileLock (notes.py:112-135).                                        *)
(***************************************************************************)
\* a task is in its critical section from flock(LOCK_EX) to flock(LOCK_UN)
InCS(p) == task[p].pc \in {"read", "wopen", "wdata", "release"}

\* __enter__, line 124: open(lock_path, "w") creates the sidecar or opens the
\* inode its name refers to now
LockOpen(p) ==
    LET t == task[p]
        lock_path == LockPath(t.path)
        ino == IF Exists(lock_path) THEN dirents[lock_path] ELSE FreshIno
    IN
    /\ t.pc = "enter"
    /\ DirExists(t.path[1])
    /\ dirents' = Linked(dirents, lock_path, ino)
    /\ idata' = [i \in DOMAIN idata \cup {ino} |-> IF i = ino THEN <<>> ELSE idata[i]]
    /\ task' = [task EXCEPT ![p].lockFd = ino, ![p].pc = "flock"]
    /\ UNCHANGED <<dirs, log>>

\* __enter__, line 125: flock(LOCK_EX) blocks while another open file
\* description of the same inode holds the lock
LockFlock(p) ==
    LET t == task[p] IN
    /\ t.pc = "flock"
    /\ \A q \in Procs \ {p} : ~(InCS(q) /\ task[q].lockFd = t.lockFd)
    /\ task' = [task EXCEPT ![p].pc = IF t.op \in {"get", "patch"} THEN "read" ELSE "wopen"]
    /\ UNCHANGED <<dirs, dirents, idata, log>>

\* a release that happens only when the guarded block did not raise
LockReleaseUnlessFailed(p) ==
    /\ task[p].pc = "release"
    /\ task[p].exc = "none"
    /\ task' = [task EXCEPT ![p].lockFd = NoFd, ![p].pc = "lexists"]
    /\ idata' = Reap(idata, dirents, task')
    /\ UNCHANGED <<dirs, dirents, log>>

\* __exit__, lines 130-131: flock(LOCK_UN) and close
LockRelease(p) ==
    /\ task[p].pc = "release"
    /\ task' = [task EXCEPT ![p].lockFd = NoFd, ![p].pc = "lexists"]
    /\ idata' = Reap(idata, dirents, task')
    /\ UNCHANGED <<dirs, dirents, log>>

\* __exit__, line 134: lock_path.exists()
LockExists(p) ==
    /\ task[p].pc = "lexists"
    /\ task' = [task EXCEPT ![p].pc = IF Exists(LockPath(task[p].path)) THEN "lunlink" ELSE "stat"]
    /\ UNCHANGED <<dirs, dirents, idata, log>>

\* a release that leaves the sidecar behind
LockUnlinkSkipped(p) ==
    /\ task[p].pc = "lunlink"
    /\ Exists(LockPath(task[p].path))
    /\ task' = [task EXCEPT ![p].pc = "stat"]
    /\ UNCHANGED <<dirs, dirents, idata, log>>

\* __exit__, line 135: lock_path.unlink()
LockUnlink(p) ==
    LET lock_path == LockPath(task[p].path) IN
    /\ task[p].pc = "lunlink"
    /\ Exists(lock_path)
    /\ dirents' = Unlinked(dirents, lock_path)
    /\ idata' = Reap(idata, dirents', task)
    /\ task' = [task EXCEPT ![p].pc = "stat"]
    /\ UNCHANGED <<dirs, log>>

\* __exit__, line 135: unlink raises FileNotFoundError when another task has
\* removed the sidecar since line 134
LockUnlinkRaises(p) ==
    /\ task[p].pc = "lunlink"
    /\ ~Exists(LockPath(task[p].path))
    /\ task' = [task EXCEPT ![p].exc = "lock_unlink", ![p].pc = "stat"]
    /\ UNCHANGED <<dirs, dirents, idata, log>>

(***************************************************************************)
(* The guarded file operations and the responses (notes.py).               *)
(***************************************************************************)
\* patch_note, lines 385-388
PatchContent(existing_content, content) ==
    IF existing_content # <<>> /\ content # <<>>
    THEN existing_content \o Separator \o content
    ELSE existing_content \o content

\* note_path.read_text(), lines 264 and 382
ReadText(p) ==
    LET t == task[p]
        text == ReadTranslate(idata[dirents[t.path]])
    IN
    /\ t.pc = "read"
    /\ Exists(t.path)
    /\ task' = [task EXCEPT ![p].buf = IF t.op = "patch" THEN PatchContent(text, t.arg) ELSE text,
                            ![p].pc = IF t.op = "patch" THEN "wopen" ELSE "release"]
    /\ UNCHANGED <<dirs, dirents, idata, log>>

\* read_text raises FileNotFoundError: the note was deleted after the check
ReadTextRaises(p) ==
    /\ task[p].pc = "read"
    /\ ~Exists(task[p].path)
    /\ task' = [task EXCEPT ![p].exc = "read", ![p].pc = "release"]
    /\ UNCHANGED <<dirs, dirents, idata, log>>

\* note_path.write_text(), lines 185, 340, 390: open(path, "w") creates the
\* file or truncates the one there
WriteOpen(p) ==
    LET t == task[p]
        ino == IF Exists(t.path) THEN dirents[t.path] ELSE FreshIno
    IN
    /\ t.pc = "wopen"
    /\ DirExists(t.path[1])
    /\ dirents' = Linked(dirents, t.path, ino)
    /\ idata' = [i \in DOMAIN idata \cup {ino} |-> IF i = ino THEN <<>> ELSE idata[i]]
    /\ task' = [task EXCEPT ![p].fileFd = ino, ![p].pc = "wdata"]
    /\ UNCHANGED <<dirs, log>>

\* write_text: the text is written at offset 0 of the open file, then closed
WriteData(p) ==
    LET t == task[p] IN
    /\ t.pc = "wdata"
    /\ task' = [task EXCEPT ![p].fileFd = NoFd, ![p].pc = "release"]
    /\ idata' = Reap([idata EXCEPT ![t.fileFd] = Overwrite(@, WriteTranslate(t.buf))],
                     dirents, task')
    /\ UNCHANGED <<dirs, dirents, log>>

\* get_note_metadata (file_path.stat()) and the response, or the 500 of the
\* except clause: lines 187-203, 266-280, 342-358, 392-408
Respond(p) ==
    LET t == task[p] IN
    /\ t.pc = "stat"
    /\ log' = Append(log,
                 IF t.exc # "none" THEN Response(p, t.op, t.id, t.arg, 500, <<>>, t.exc)
                 ELSE IF ~Exists(t.path) THEN Response(p, t.op, t.id, t.arg, 500, <<>>, "stat")
                 ELSE Response(p, t.op, t.id, t.arg, 200, t.buf, "none"))
    /\ task' = [task EXCEPT ![p] = Idle]
    /\ UNCHANGED <<dirs, dirents, idata>>

(***************************************************************************)
(* Workspaces and workloads.                                               *)
(***************************************************************************)
P1 == <<"p", "1">>

\* the workspace holding the files `files`, each <<directory, name, data>>
Workspace(files) ==
    /\ dirs = {<<>>} \cup {files[i][1] : i \in 1..Len(files)}
    /\ dirents = [pth \in {<<files[i][1], files[i][2]>> : i \in 1..Len(files)} |->
                    CHOOSE i \in 1..Len(files) : <<files[i][1], files[i][2]>> = pth]
    /\ idata = [i \in 1..Len(files) |-> files[i][3]]
    /\ task = [p \in Procs |-> Idle]
    /\ log = <<>>

Pdf(d) == <<d, d \o PdfExt, <<"%">>>>

NoteFile(d, name, data) == <<d, name, data>>

XMd == <<"x", ".", "m", "d">>

\* the data of the note of paper P1, <<>> when P1 has no note
NoteData(d) ==
    LET found == find_note(d) \ {NoPath} IN
    IF found = {} THEN <<>> ELSE idata[dirents[CHOOSE f \in found : TRUE]]

Quiescent == \A p \in Procs : task[p].pc = "idle"

\* the number of the call that starts next
CallNo == Len(log) + InFlight + 1

(***************************************************************************)
(* Spec: two workers serving concurrent requests on the note of one paper. *)
(***************************************************************************)
Init == Workspace(<<Pdf(P1), NoteFile(P1, P1 \o MdExt, <<"x">>)>>)

Next ==
    \E p \in Procs :
        \/ CreateNote(p, P1, <<"a">>)
        \/ GetNote(p, P1)
        \/ UpdateNote(p, P1, <<"a">>)
        \/ PatchNote(p, P1, <<"a">>)
        \/ DeleteNote(p, P1)
        \/ DeleteUnlink(p)
        \/ LockOpen(p)
        \/ LockFlock(p)
        \/ ReadText(p)
        \/ ReadTextRaises(p)
        \/ WriteOpen(p)
        \/ WriteData(p)
        \/ LockRelease(p)
        \/ LockExists(p)
        \/ LockUnlink(p)
        \/ LockUnlinkRaises(p)
        \/ Respond(p)

Spec == Init /\ [][Next]_vars

(***************************************************************************)
(* SpecPatch: concurrent patch calls, each appending a piece of its own.   *)
(***************************************************************************)
Piece(k) == <<"a", "b", "c", "d", "e">>[k]

NextPatch ==
    \E p \in Procs :
        \/ PatchNote(p, P1, <<Piece(CallNo)>>)
        \/ LockOpen(p)
        \/ LockFlock(p)
        \/ ReadText(p)
        \/ WriteOpen(p)
        \/ WriteData(p)
        \/ LockRelease(p)
        \/ LockExists(p)
        \/ LockUnlink(p)
        \/ LockUnlinkRaises(p)
        \/ Respond(p)

SpecPatch == Init /\ [][NextPatch]_vars

(***************************************************************************)
(* SpecUpdate: concurrent update calls with contents of their own, and     *)
(* reads.                                                                  *)
(***************************************************************************)
\* the content of the k-th call: k letters, from the longest on
Content(k) == [i \in 1..(MaxCalls + 1 - k) |-> Piece(k)]

NextUpdate ==
    \E p \in Procs :
        \/ UpdateNote(p, P1, Content(CallNo))
        \/ GetNote(p, P1)
        \/ LockOpen(p)
        \/ LockFlock(p)
        \/ ReadText(p)
        \/ WriteOpen(p)
        \/ WriteData(p)
        \/ LockRelease(p)
        \/ LockExists(p)
        \/ LockUnlink(p)
        \/ LockUnlinkRaises(p)
        \/ Respond(p)

SpecUpdate == Init /\ [][NextUpdate]_vars

(***************************************************************************)
(* SpecSeq: one client calling the note store, one call after the other,   *)
(* on workspaces laid out in the ways find_note tells apart.               *)
(***************************************************************************)
First == Min(Procs)

\* "p/1", which sanitizes to P1
Slashed == <<"p", "/", "1">>

SeqIds == {P1, Slashed}

InitSeq ==
    \/ Workspace(<<>>)
    \/ Workspace(<<Pdf(P1)>>)
    \/ Workspace(<<Pdf(P1), NoteFile(P1, NoteMd, <<"x">>)>>)
    \/ Workspace(<<Pdf(P1), NoteFile(P1, P1 \o MdExt, <<"x">>)>>)
    \/ Workspace(<<Pdf(P1), NoteFile(P1, XMd, <<"x">>)>>)
    \/ Workspace(<<Pdf(P1), NoteFile(P1, NoteMd, <<"x">>), NoteFile(P1, XMd, <<"y">>)>>)

NextSeq ==
    \E p \in {First} :
        \/ \E id \in SeqIds, c \in {<<>>, <<"a">>} : CreateNote(p, id, c)
        \/ \E id \in SeqIds : GetNote(p, id)
        \/ \E id \in SeqIds : UpdateNote(p, id, <<"a">>)
        \/ \E id \in SeqIds : PatchNote(p, id, <<"a">>)
        \/ \E id \in SeqIds : DeleteNote(p, id)
        \/ DeleteUnlink(p)
        \/ LockOpen(p)
        \/ LockFlock(p)
        \/ ReadText(p)
        \/ WriteOpen(p)
        \/ WriteData(p)
        \/ LockRelease(p)
        \/ LockExists(p)
        \/ LockUnlink(p)
        \/ Respond(p)

SpecSeq == InitSeq /\ [][NextSeq]_vars

(***************************************************************************)
(* SpecText: one client creating, reading, updating and patching the note  *)
(* of a paper with texts that hold line ends.                              *)
(***************************************************************************)
Texts == {<<>>, <<"a">>, <<"a", CR, "b">>, <<CR, LF>>}

InitText == Workspace(<<Pdf(P1)>>)

NextText ==
    \E p \in {First} :
        \/ \E c \in Texts : CreateNote(p, P1, c)
        \/ GetNote(p, P1)
        \/ \E c \in Texts : UpdateNote(p, P1, c)
        \/ \E c \in Texts : PatchNote(p, P1, c)
        \/ LockOpen(p)
        \/ LockFlock(p)
        \/ ReadText(p)
        \/ WriteOpen(p)
        \/ WriteData(p)
        \/ LockRelease(p)
        \/ LockExists(p)
        \/ LockUnlink(p)
        \/ Respond(p)

SpecText == InitText /\ [][NextText]_vars

(***************************************************************************)
(* SpecLive: the calls of Spec under fair scheduling.  A worker that can   *)
(* take its next step takes it; flock(2) grants a lock that is free again  *)
(* and again to a waiter in the end.  No fairness on the arrival of calls. *)
(***************************************************************************)
\* the steps of a running handler other than the wait in flock
Step(p) ==
    \/ DeleteUnlink(p)
    \/ LockOpen(p)
    \/ ReadText(p)
    \/ ReadTextRaises(p)
    \/ WriteOpen(p)
    \/ WriteData(p)
    \/ LockRelease(p)
    \/ LockExists(p)
    \/ LockUnlink(p)
    \/ LockUnlinkRaises(p)
    \/ Respond(p)

NextLive ==
    \E p \in Procs :
        \/ CreateNote(p, P1, <<"a">>)
        \/ GetNote(p, P1)
        \/ UpdateNote(p, P1, <<"a">>)
        \/ PatchNote(p, P1, <<"a">>)
        \/ DeleteNote(p, P1)
        \/ LockFlock(p)
        \/ Step(p)

Fairness == \A p \in Procs : WF_vars(Step(p)) /\ SF_vars(LockFlock(p))

SpecLive == Init /\ [][NextLive]_vars /\ Fairness


(***************************************************************************)
(* The paper store (papers.py) over the resolver's PDF side (config.py).   *)
(* The bytes of an upload are a record: their number, a tag telling one    *)
(* upload from another, and what PyMuPDF makes of them (ok: they parse;    *)
(* pages, title, author: what the parsed document holds).                  *)
(***************************************************************************)
\* str.lower()
Lower(c) == CASE c = "A" -> "a" [] c = "B" -> "b" [] c = "D" -> "d" [] c = "F" -> "f"
              [] c = "P" -> "p" [] c = "R" -> "r"
              [] OTHER -> c

LowerStr(s) == [i \in 1..Len(s) |-> Lower(s[i])]

\* `sub in s` on strings
Contains(s, sub) ==
    \E i \in 0..(Len(s) - Len(sub)) : SubSeq(s, i + 1, i + Len(sub)) = sub

\* ord(c), the code point
Ord(c) == CASE c = " " -> 32 [] c = "!" -> 33 [] c = "-" -> 45 [] c = "." -> 46
            [] c = "1" -> 49 [] c = "2" -> 50 [] c = "3" -> 51
            [] c = "B" -> 66 [] c = "D" -> 68 [] c = "F" -> 70 [] c = "P" -> 80
            [] c = "_" -> 95 [] c = "a" -> 97 [] c = "b" -> 98 [] c = "c" -> 99
            [] c = "d" -> 100 [] c = "e" -> 101 [] c = "f" -> 102 [] c = "k" -> 107
            [] c = "l" -> 108 [] c = "m" -> 109 [] c = "n" -> 110 [] c = "o" -> 111
            [] c = "p" -> 112 [] c = "q" -> 113 [] c = "r" -> 114 [] c = "t" -> 116
            [] c = "x" -> 120

\* s < t on strings: by code point, a proper prefix first
RECURSIVE StrLess(_, _)
StrLess(s, t) ==
    IF t = <<>> THEN FALSE
    ELSE IF s = <<>> THEN TRUE
    ELSE IF Head(s) = Head(t) THEN StrLess(Tail(s), Tail(t))
    ELSE Ord(Head(s)) < Ord(Head(t))

\* sorted(names)
RECURSIVE Sorted(_)
Sorted(S) ==
    IF S = {} THEN <<>>
    ELSE LET least == CHOOSE x \in S : \A y \in S \ {x} : StrLess(x, y)
         IN <<least>> \o Sorted(S \ {least})

ThumbnailJpg == <<"t", "h", "u", "m", "b", "n", "a", "i", "l", ".", "j", "p", "g">>

\* paper_dir.glob("*.pdf")
GlobPdf(d) == {pth \in DOMAIN dirents : pth[1] = d /\ EndsWith(pth[2], PdfExt)}

\* find_pdf: the paths it can return (pdf_files[0] is any of the matches)
find_pdf(d) ==
    IF ~DirExists(d) THEN {NoPath}
    ELSE IF GlobPdf(d) # {} THEN GlobPdf(d)
    ELSE {NoPath}

get_paper_path(paper_name) ==
    {IF pdf # NoPath THEN pdf ELSE <<get_paper_dir(paper_name), paper_name \o PdfExt>> :
        pdf \in find_pdf(get_paper_dir(paper_name))}

\* a listing of every folder of the root
list_every_folder ==
    IF ~DirExists(<<>>) THEN <<>>
    ELSE Sorted(dirs \ {<<>>})

\* StorageSettings.list_papers: the subdirectories of the root that hold a
\* PDF, sorted by name
list_papers ==
    IF ~DirExists(<<>>) THEN <<>>
    ELSE Sorted({d \in dirs \ {<<>>} : find_pdf(d) # {NoPath}})

\* config.py:120
max_file_size_mb == 50

\* papers.py:111
max_size == max_file_size_mb * 1024 * 1024

\* the names fastapi.status defines, of those the handlers use
status == [HTTP_400_BAD_REQUEST |-> 400, HTTP_401_UNAUTHORIZED |-> 401,
           HTTP_402_PAYMENT_REQUIRED |-> 402, HTTP_404_NOT_FOUND |-> 404,
           HTTP_409_CONFLICT |-> 409, HTTP_413_REQUEST_ENTITY_TOO_LARGE |-> 413,
           HTTP_429_TOO_MANY_REQUESTS |-> 429, HTTP_500_INTERNAL_SERVER_ERROR |-> 500]

\* raise HTTPException(status_code=status.<name>): the status of the response.
\* A name the module does not define raises AttributeError instead, which
\* the server answers with 500.
HTTPException(name) == IF name \in DOMAIN status THEN status[name] ELSE 500

FreshInoOf(data) == Min((1..(Cardinality(DOMAIN data) + 1)) \ DOMAIN data)

\* a handler that answers in one step
Answer(p, op, id, arg, code, out, err) ==
    /\ log' = Append(log, Response(p, op, id, arg, code, out, err))
    /\ UNCHANGED task

\* a handler that answers by raising HTTPException(status_code=status.<name>)
Raise(p, op, id, arg, name) ==
    /\ Answer(p, op, id, arg, HTTPException(name), <<>>,
              IF name \in DOMAIN status THEN "none" ELSE "AttributeError")
    /\ UNCHANGED <<dirs, dirents, idata>>

\* an upload that makes the paper's directory before it looks at the size
UploadPaperEager(p, filename, content) ==
    /\ CanCall(p)
    /\ IF filename = <<>> \/ ~EndsWith(LowerStr(filename), PdfExt)
       THEN Raise(p, "upload", filename, content, "HTTP_400_BAD_REQUEST")
       ELSE /\ dirs' = dirs \cup {<<>>, get_paper_dir(Sanitize(Stem(filename)))}
            /\ Answer(p, "upload", filename, content,
                      IF content.size > max_size THEN 413 ELSE 200,
                      Sanitize(Stem(filename)), "none")
            /\ UNCHANGED <<dirents, idata>>

\* upload_paper, papers.py:92-163
UploadPaper(p, filename, content) ==
    /\ CanCall(p)
    /\ IF filename = <<>> \/ ~EndsWith(LowerStr(filename), PdfExt)
       THEN Raise(p, "upload", filename, content, "HTTP_400_BAD_REQUEST")
       ELSE IF content.size > max_size
       THEN Raise(p, "upload", filename, content, "HTTP_413_REQUEST_ENTITY_TOO_LOCUM")
       ELSE LET paper_name == Stem(filename)
                safe_name == Sanitize(paper_name)
                paper_dir == get_paper_dir(safe_name)
                thumbnail_path == <<paper_dir, ThumbnailJpg>>
            IN /\ dirs' = dirs \cup {<<>>, paper_dir}
               /\ \E paper_path \in get_paper_path(safe_name) :
                     LET ino == IF Exists(paper_path) THEN dirents[paper_path] ELSE FreshIno
                         written == Linked(dirents, paper_path, ino)
                         data == [i \in DOMAIN idata \cup {ino} |->
                                    IF i = ino THEN content ELSE idata[i]]
                         tino == IF thumbnail_path \in DOMAIN written
                                 THEN written[thumbnail_path] ELSE FreshInoOf(data)
                     IN IF content.ok /\ content.pages > 0
                        THEN /\ dirents' = Linked(written, thumbnail_path, tino)
                             /\ idata' = [i \in DOMAIN data \cup {tino} |->
                                            IF i = tino THEN <<"j">> ELSE data[i]]
                        ELSE /\ dirents' = written
                             /\ idata' = data
               /\ Answer(p, "upload", filename, content, 200, safe_name, "none")

\* the PaperMetadata of a paper whose PDF is at paper_path; page_count is 0
\* when fitz.open raises
Entry(paper_name, paper_path) ==
    LET content == idata[dirents[paper_path]] IN
    [id |-> paper_name,
     page_count |-> IF content.ok THEN content.pages ELSE 0,
     file_size |-> content.size,
     thumbnail |-> Exists(<<get_paper_dir(paper_name), ThumbnailJpg>>)]

\* the PDF get_paper_path finds for each listed paper
Picks == {pick \in [Range(list_papers) -> GlobPdf(<<>>) \cup UNION {GlobPdf(d) : d \in dirs}] :
            \A n \in Range(list_papers) : pick[n] \in get_paper_path(n)}

\* a listing that lets the failure of fitz.open through
ListPapersUnguarded(p) ==
    /\ CanCall(p)
    /\ \E pick \in Picks :
          IF \E n \in Range(list_papers) : ~idata[dirents[pick[n]]].ok
          THEN Answer(p, "list", <<>>, <<>>, 500, <<>>, "fitz")
          ELSE Answer(p, "list", <<>>, <<>>, 200,
                      [i \in 1..Len(list_papers) |-> Entry(list_papers[i], pick[list_papers[i]])],
                      "none")
    /\ UNCHANGED <<dirs, dirents, idata>>

\* list_papers, papers.py:166-221
ListPapers(p) ==
    /\ CanCall(p)
    /\ \E pick \in Picks :
          Answer(p, "list", <<>>, <<>>, 200,
                 [i \in 1..Len(list_papers) |-> Entry(list_papers[i], pick[list_papers[i]])],
                 "none")
    /\ UNCHANGED <<dirs, dirents, idata>>

\* papers.py:257-261 and 276: does the paper match the query
Matches(paper_name, paper_path, query) ==
    LET content == idata[dirents[paper_path]] IN
    IF content.ok
    THEN \/ Contains(LowerStr(content.title), query)
         \/ Contains(LowerStr(content.author), query)
         \/ Contains(LowerStr(paper_name), query)
    ELSE Contains(LowerStr(paper_name), query)

\* search_papers, papers.py:224-288
SearchPapers(p, q) ==
    /\ CanCall(p)
    /\ \E pick \in Picks :
          LET found == SelectSeq(list_papers, LAMBDA n : Matches(n, pick[n], LowerStr(q)))
          IN Answer(p, "search", <<>>, q, 200,
                    [i \in 1..Len(found) |-> Entry(found[i], pick[found[i]])], "none")
    /\ UNCHANGED <<dirs, dirents, idata>>

\* get_paper, papers.py:328-374
GetPaper(p, paper_id) ==
    /\ CanCall(p)
    /\ \E paper_path \in get_paper_path(paper_id) :
          IF ~Exists(paper_path)
          THEN Raise(p, "paper", paper_id, <<>>, "HTTP_404_NOT_FOUND")
          ELSE IF ~idata[dirents[paper_path]].ok
          THEN Raise(p, "paper", paper_id, <<>>, "HTTP_500_INTERNAL_SERVER_ERROR")
          ELSE /\ Answer(p, "paper", paper_id, <<>>, 200, Entry(paper_id, paper_path), "none")
               /\ UNCHANGED <<dirs, dirents, idata>>

\* shutil.rmtree(d): the directories left
RmtreeDirs(d) == IF d = <<>> THEN {} ELSE dirs \ {d}

\* delete_paper, papers.py:412-428; paper_dir.exists() also holds of a plain
\* file of the root, on which rmtree raises NotADirectoryError
DeletePaper(p, paper_id) ==
    LET paper_dir == get_paper_dir(paper_id) IN
    /\ CanCall(p)
    /\ IF DirExists(paper_dir)
       THEN /\ dirs' = RmtreeDirs(paper_dir)
            /\ dirents' = [pth \in {q \in DOMAIN dirents : q[1] \in dirs'} |-> dirents[pth]]
            /\ idata' = Reap(idata, dirents', task)
            /\ Answer(p, "rmpaper", paper_id, <<>>, 200, <<>>, "none")
       ELSE IF Exists(<<<<>>, paper_id>>)
       THEN /\ Answer(p, "rmpaper", paper_id, <<>>, 500, <<>>, "rmtree")
            /\ UNCHANGED <<dirs, dirents, idata>>
       ELSE Raise(p, "rmpaper", paper_id, <<>>, "HTTP_404_NOT_FOUND")

(***************************************************************************)
(* SpecPapers: one client calling the paper store, and reading notes, on   *)
(* a fresh workspace and on one holding two papers, a folder with a note   *)
(* and no PDF, and a plain file in the root.                               *)
(***************************************************************************)
Bytes(size, tag, ok, pages, title) ==
    [size |-> size, tag |-> tag, ok |-> ok, pages |-> pages, title |-> title, author |-> <<>>]

Small   == Bytes(3, "small", TRUE, 2, <<"F", "o", "o">>)
Corrupt == Bytes(4, "corrupt", FALSE, 0, <<>>)
AtMax   == Bytes(max_size, "at max", TRUE, 1, <<>>)
OverMax == Bytes(max_size + 1, "over max", TRUE, 1, <<>>)

P1Pdf    == <<"p", "1", ".", "p", "d", "f">>
FooBar   == <<"F", "o", "o", " ", "B", "a", "r">>
UpperPdf == <<"p", "2", ".", "P", "D", "F">>
BangPdf  == <<"!", ".", "p", "d", "f">>
P1Md     == <<"p", "1", ".", "m", "d">>

Uploads ==
    ({P1Pdf, FooBar \o PdfExt, UpperPdf, BangPdf, P1Md, <<>>} \X {Small})
        \cup ({P1Pdf} \X {Corrupt, AtMax, OverMax})
        \cup {<<P1Md, OverMax>>}

C1Dir == <<"c", "1">>
QDir  == <<"q">>
EPdf  == <<"e", ".", "p", "d", "f">>
Dot   == <<".">>

PaperIds == {P1, C1Dir, Dot, EPdf}

Library ==
    <<<<P1, P1Pdf, Small>>, <<P1, NoteMd, <<"x">>>>, <<P1, ThumbnailJpg, <<"j">>>>,
      <<C1Dir, C1Dir \o PdfExt, Corrupt>>,
      <<QDir, QDir \o MdExt, <<"x">>>>,
      <<<<>>, EPdf, Small>>>>

InitPapers == Workspace(<<>>) \/ Workspace(Library)

NextPapers ==
    \E p \in {First} :
        \/ \E u \in Uploads : UploadPaper(p, u[1], u[2])
        \/ ListPapers(p)
        \/ \E q \in {<<"F">>, <<"1">>} : SearchPapers(p, q)
        \/ \E id \in PaperIds : GetPaper(p, id)
        \/ \E id \in PaperIds : DeletePaper(p, id)
        \/ \E id \in {P1, Dot} : GetNote(p, id)
        \/ LockOpen(p)
        \/ LockFlock(p)
        \/ ReadText(p)
        \/ LockRelease(p)
        \/ LockExists(p)
        \/ LockUnlink(p)
        \/ Respond(p)

SpecPapers == InitPapers /\ [][NextPapers]_vars

(***************************************************************************)
(* The note listing (notes.py:206-243).  File times are not part of the    *)
(* model: the listing is the set of its entries, without their order.      *)
(***************************************************************************)
\* no paper_id query parameter
NoFilter == <<>>

\* get_note_metadata, lines 98-109
NoteEntry(paper_name, note_path) ==
    [paper_id |-> paper_name, filename |-> note_path[2],
     file_size |-> Len(idata[dirents[note_path]])]

\* the note get_note_path resolves for each paper
NotePicks == {pick \in [Range(list_papers) -> GlobMd(<<>>) \cup UNION {GlobMd(d) : d \in dirs} \cup {NoPath}] :
                \A n \in Range(list_papers) :
                    \/ pick[n] \in get_note_path(n) /\ Exists(pick[n])
                    \/ pick[n] = NoPath /\ \E f \in get_note_path(n) : ~Exists(f)}

\* list_notes, lines 206-243
ListNotes(p, paper_id) ==
    /\ CanCall(p)
    /\ \E pick \in NotePicks :
          LET kept == {n \in Range(list_papers) :
                          pick[n] # NoPath /\ (paper_id = NoFilter \/ n = paper_id)}
              notes == {NoteEntry(n, pick[n]) : n \in kept}
          IN Answer(p, "notes", paper_id, <<>>, 200,
                    [notes |-> notes, total |-> Cardinality(notes)], "none")
    /\ UNCHANGED <<dirs, dirents, idata>>

(***************************************************************************)
(* SpecNotes: one client creating, deleting and listing notes, on the      *)
(* workspaces of SpecSeq and on one with two papers with notes.            *)
(***************************************************************************)
TwoPapers ==
    <<Pdf(P1), NoteFile(P1, NoteMd, <<"x">>),
      Pdf(C1Dir), NoteFile(C1Dir, C1Dir \o MdExt, <<"y", "y">>),
      NoteFile(QDir, QDir \o MdExt, <<"x">>)>>

InitNotes == InitSeq \/ Workspace(TwoPapers)

NextNotes ==
    \E p \in {First} :
        \/ \E id \in {P1, Slashed, QDir} : CreateNote(p, id, <<"a">>)
        \/ \E f \in {NoFilter, P1, Slashed, QDir} : ListNotes(p, f)
        \/ \E id \in {P1, QDir} : DeleteNote(p, id)
        \/ DeleteUnlink(p)
        \/ LockOpen(p)
        \/ LockFlock(p)
        \/ WriteOpen(p)
        \/ WriteData(p)
        \/ LockRelease(p)
        \/ LockExists(p)
        \/ LockUnlink(p)
        \/ Respond(p)

SpecNotes == InitNotes /\ [][NextNotes]_vars

(***************************************************************************)
(* The AI assistant's ask (ai.py:111-209) and the PDF text extraction      *)
(* (pdf.py:351-416).  What the LLM call does is the environment's choice:  *)
(* it returns, or raises an error of some kind with some message.          *)
(***************************************************************************)
Whitespace == {" ", LF, CR}

\* str.strip()
RECURSIVE LStrip(_)
LStrip(s) == IF s # <<>> /\ Head(s) \in Whitespace THEN LStrip(Tail(s)) ELSE s

RECURSIVE RStrip(_)
RStrip(s) == IF s # <<>> /\ s[Len(s)] \in Whitespace THEN RStrip(SubSeq(s, 1, Len(s) - 1)) ELSE s

Strip(s) == RStrip(LStrip(s))

Returned == [kind |-> "none", msg |-> <<>>]

\* errors of the provider: its kind, and str(e)
Upstream == {
    [kind |-> "rate_limit", msg |-> <<"4", "2", "9", " ", "r", "a", "t", "e", "_", "l", "i", "m", "i", "t", "_", "e", "x", "c", "e", "e", "d", "e", "d">>],
    [kind |-> "rate_limit", msg |-> <<"R", "a", "t", "e", "_", "l", "i", "m", "i", "t", " ", "r", "e", "a", "c", "h", "e", "d">>],
    [kind |-> "auth", msg |-> <<"4", "0", "1", " ", "i", "n", "v", "a", "l", "i", "d", "_", "a", "p", "i", "_", "k", "e", "y">>],
    [kind |-> "auth", msg |-> <<"A", "u", "t", "h", "e", "n", "t", "i", "c", "a", "t", "i", "o", "n", " ", "f", "a", "i", "l", "e", "d">>],
    [kind |-> "quota", msg |-> <<"4", "2", "9", " ", "i", "n", "s", "u", "f", "f", "i", "c", "i", "e", "n", "t", "_", "q", "u", "o", "t", "a">>],
    [kind |-> "quota", msg |-> <<"i", "n", "s", "u", "f", "f", "i", "c", "i", "e", "n", "t", "_", "q", "u", "o", "t", "a">>],
    [kind |-> "other", msg |-> <<"t", "i", "m", "e", "d", " ", "o", "u", "t">>],
    [kind |-> "other", msg |-> <<"t", "o", "o", "k", " ", "4", "2", "9", "0", " ", "m", "s">>]}

\* ai.py:189-209, the status for an exception whose str() is error_msg
ErrorStatus(error_msg) ==
    IF Contains(LowerStr(error_msg), <<"r", "a", "t", "e", "_", "l", "i", "m", "i", "t">>)
          \/ Contains(error_msg, <<"4", "2", "9">>)
    THEN HTTPException("HTTP_429_TOO_MANY_REQUESTS")
    ELSE IF Contains(LowerStr(error_msg), <<"a", "u", "t", "h", "e", "n", "t", "i", "c", "a", "t", "i", "o", "n">>)
          \/ Contains(error_msg, <<"4", "0", "1">>)
    THEN HTTPException("HTTP_401_UNAUTHORIZED")
    ELSE IF Contains(LowerStr(error_msg), <<"i", "n", "s", "u", "f", "f", "i", "c", "i", "e", "n", "t", "_", "q", "u", "o", "t", "a">>)
    THEN HTTPException("HTTP_402_PAYMENT_REQUIRED")
    ELSE HTTPException("HTTP_500_INTERNAL_SERVER_ERROR")

\* ask_ai without pdf_id, context and system_prompt
AskAi(p, query, outcome) ==
    /\ CanCall(p)
    /\ IF query = <<>> \/ Strip(query) = <<>>
       THEN Raise(p, "ask", query, outcome, "HTTP_400_BAD_REQUEST")
       ELSE /\ Answer(p, "ask", query, outcome,
                      IF outcome = Returned THEN 200 ELSE ErrorStatus(outcome.msg),
                      <<>>, "none")
            /\ UNCHANGED <<dirs, dirents, idata>>

\* str.split(sep)
RECURSIVE Split(_, _)
Split(s, sep) ==
    IF sep \notin Range(s) THEN <<s>>
    ELSE LET i == Min({k \in 1..Len(s) : s[k] = sep})
         IN <<SubSeq(s, 1, i - 1)>> \o Split(SubSeq(s, i + 1, Len(s)), sep)

DigitVal(c) == CASE c = "0" -> 0 [] c = "1" -> 1 [] c = "2" -> 2 [] c = "3" -> 3
                 [] c = "4" -> 4 [] c = "5" -> 5

Digits == {"0", "1", "2", "3", "4", "5"}

\* the digits of int(s): s without surrounding whitespace and sign
Unsigned(s) ==
    IF Strip(s) # <<>> /\ Head(Strip(s)) \in {"+", "-"} THEN Tail(Strip(s)) ELSE Strip(s)

\* int(s) returns, and does not raise ValueError
IsInt(s) == Unsigned(s) # <<>> /\ \A i \in 1..Len(Unsigned(s)) : Unsigned(s)[i] \in Digits

RECURSIVE Decimal(_)
Decimal(ds) == IF ds = <<>> THEN 0 ELSE 10 * Decimal(SubSeq(ds, 1, Len(ds) - 1)) + DigitVal(ds[Len(ds)])

\* int(s)
IntOf(s) == IF Head(Strip(s)) = "-" THEN 0 - Decimal(Unsigned(s)) ELSE Decimal(Unsigned(s))

ValueError == [raised |-> TRUE, value |-> <<>>]

Value(v) == [raised |-> FALSE, value |-> v]

\* extract_pdf_text, pdf.py:383-393: the page indices asked for
PageIndices(pages, page_count) ==
    IF pages = <<>> THEN Value([i \in 1..page_count |-> i - 1])
    ELSE IF "-" \in Range(pages)
    THEN LET parts == Split(pages, "-") IN
         IF Len(parts) # 2 \/ ~IsInt(parts[1]) \/ ~IsInt(parts[2]) THEN ValueError
         ELSE Value([i \in 1..(IntOf(parts[2]) + 1 - IntOf(parts[1])) |-> IntOf(parts[1]) + i - 1])
    ELSE IF "," \in Range(pages)
    THEN LET parts == Split(pages, ",") IN
         IF \E i \in 1..Len(parts) : ~IsInt(parts[i]) THEN ValueError
         ELSE Value([i \in 1..Len(parts) |-> IntOf(parts[i])])
    ELSE IF IsInt(pages) THEN Value(<<IntOf(pages)>>) ELSE ValueError

\* extract_pdf_text, pdf.py:351-416; out: the pages whose text is returned
ExtractPdfText(p, filename, pages) ==
    LET name == IF EndsWith(filename, PdfExt) THEN filename ELSE filename \o PdfExt
        file_path == <<<<>>, name>>
    IN
    /\ CanCall(p)
    /\ dirs' = dirs \cup {<<>>}
    /\ UNCHANGED <<dirents, idata>>
    /\ IF ~Exists(file_path)
       THEN Answer(p, "text", filename, pages, HTTPException("HTTP_404_NOT_FOUND"), <<>>, "none")
       ELSE LET doc == idata[dirents[file_path]]
                page_indices == PageIndices(pages, doc.pages)
            IN IF ~doc.ok
               THEN Answer(p, "text", filename, pages,
                           HTTPException("HTTP_500_INTERNAL_SERVER_ERROR"), <<>>, "fitz")
               ELSE IF page_indices.raised
               THEN Answer(p, "text", filename, pages,
                           HTTPException("HTTP_500_INTERNAL_SERVER_ERROR"), <<>>, "ValueError")
               ELSE Answer(p, "text", filename, pages, 200,
                           SelectSeq(page_indices.value, LAMBDA n : 0 <= n /\ n < doc.pages),
                           "none")

(***************************************************************************)
(* SpecInputs: one client sending well-formed and malformed requests to    *)
(* ask, to the text extraction of a stored PDF, and to upload.             *)
(***************************************************************************)
Blank == {<<>>, <<" ">>, <<" ", LF>>}

Asks == (Blank \X {Returned}) \cup ({<<"a">>} \X ({Returned} \cup Upstream))

\* no `pages` query parameter
NoPages == <<>>

Malformed == {<<"a">>, <<"a", "-", "b">>, <<"1", "-", "2", "-", "3">>, <<"1", "-">>,
              <<"0", ",", "a">>}

WellFormed == {<<"0">>, <<"0", "-", "1">>, <<"0", ",", "1">>, <<" ", "1">>, <<"5">>}

TextCalls == ({<<"e">>} \X ({NoPages} \cup Malformed \cup WellFormed))
             \cup ({EPdf, <<"n">>} \X {NoPages, <<"a">>})

InitInputs == Workspace(<<<<<<>>, EPdf, Small>>>>)

NextInputs ==
    \E p \in {First} :
        \/ \E a \in Asks : AskAi(p, a[1], a[2])
        \/ \E t \in TextCalls : ExtractPdfText(p, t[1], t[2])
        \/ \E f \in {P1Pdf, P1Md, <<>>} : UploadPaper(p, f, Small)

SpecInputs == InitInputs /\ [][NextInputs]_vars

(***************************************************************************)
(* SpecCreate: concurrent create calls, each with a content of its own, on *)
(* a paper that has no note yet.                                           *)
(***************************************************************************)
NextCreate ==
    \E p \in Procs :
        \/ CreateNote(p, P1, <<Piece(CallNo)>>)
        \/ LockOpen(p)
        \/ LockFlock(p)
        \/ WriteOpen(p)
        \/ WriteData(p)
        \/ LockRelease(p)
        \/ LockExists(p)
        \/ LockUnlink(p)
        \/ LockUnlinkRaises(p)
        \/ Respond(p)

SpecCreate == InitText /\ [][NextCreate]_vars

(***************************************************************************)
(* SpecEmpty: one client creating notes and uploading papers under names   *)
(* that keep no character when sanitized, and under names that do, on a    *)
(* fresh workspace.                                                        *)
(***************************************************************************)
Bang == <<"!">>

NextEmpty ==
    \E p \in {First} :
        \/ \E id \in {Bang, P1} : CreateNote(p, id, <<"a">>)
        \/ \E f \in {BangPdf, P1Pdf} : UploadPaper(p, f, Small)
        \/ LockOpen(p)
        \/ LockFlock(p)
        \/ WriteOpen(p)
        \/ WriteData(p)
        \/ LockRelease(p)
        \/ LockExists(p)
        \/ LockUnlink(p)
        \/ Respond(p)

SpecEmpty == Workspace(<<>>) /\ [][NextEmpty]_vars

(***************************************************************************)
(* SpecFind: the resolver's find_pdf and find_note called on a directory   *)
(* that holds any of a few files, or is missing.  A directory scan yields  *)
(* its entries in the file system's order, so the first match of a glob is *)
(* any of the matches.                                                     *)
(***************************************************************************)
APdf == <<"a", ".", "p", "d", "f">>
AMd  == <<"a", ".", "m", "d">>

FindNames == {NoteMd, P1Md, XMd, AMd, P1Pdf, APdf, P1Md \o LockExt}

DataOf(name) ==
    IF EndsWith(name, PdfExt) THEN Small
    ELSE IF EndsWith(name, MdExt) THEN <<"x">>
    ELSE <<>>

\* the files named `names` in directory d
FilesIn(d, names) == [i \in 1..Len(Sorted(names)) |-> <<d, Sorted(names)[i], DataOf(Sorted(names)[i])>>]

\* settings.storage.find_pdf(workspace_root / d)
FindPdf(p, d) ==
    /\ CanCall(p)
    /\ \E pdf \in find_pdf(d) : Answer(p, "find_pdf", d, <<>>, 0, pdf, "none")
    /\ UNCHANGED <<dirs, dirents, idata>>

\* settings.storage.find_note(workspace_root / d)
FindNote(p, d) ==
    /\ CanCall(p)
    /\ \E note \in find_note(d) : Answer(p, "find_note", d, <<>>, 0, note, "none")
    /\ UNCHANGED <<dirs, dirents, idata>>

InitFind == \E names \in SUBSET FindNames : Workspace(FilesIn(P1, names))

NextFind ==
    \E p \in {First} :
        \/ FindPdf(p, P1)
        \/ FindNote(p, P1)

SpecFind == InitFind /\ [][NextFind]_vars

(***************************************************************************)
(* SpecSanitize: the sanitizing of identifiers, applied to every short     *)
(* string over a few characters, by itself, to its own result, and by the  *)
(* handlers that use it: one call of note create, note read or paper       *)
(* upload on a workspace holding paper "a1" with a note.                   *)
(***************************************************************************)
MaxLen == 3

IdChars == {"a", "1", "-", "_", " ", ".", "/"}

RawIds == UNION {[1..n -> IdChars] : n \in 0..MaxLen}

\* the identifiers that can be the stem of a file name
RawNames == {raw \in RawIds : "/" \notin Range(raw)}

A1 == <<"a", "1">>

\* safe_id = "".join(c for c in paper_id if c.isalnum() or c in "-_ ")
SanitizeId(p, raw) ==
    /\ CanCall(p)
    /\ Answer(p, "sanitize", raw, <<>>, 0, Sanitize(raw), "none")
    /\ UNCHANGED <<dirs, dirents, idata>>

\* the same expression applied to the result of the last application
Resanitize(p) ==
    /\ Len(log) = 1
    /\ log[1].op = "sanitize"
    /\ SanitizeId(p, log[1].out)

InitSanitize == Workspace(<<<<A1, A1 \o PdfExt, Small>>, NoteFile(A1, NoteMd, <<"x">>)>>)

NextSanitize ==
    \E p \in {First} :
        \/ log = <<>> /\ \E raw \in RawIds : SanitizeId(p, raw)
        \/ Resanitize(p)
        \/ log = <<>> /\ \E raw \in RawIds : CreateNote(p, raw, <<"a">>)
        \/ log = <<>> /\ \E raw \in RawIds : GetNote(p, raw)
        \/ log = <<>> /\ \E raw \in RawNames : UploadPaper(p, raw \o PdfExt, Small)
        \/ LockOpen(p)
        \/ LockFlock(p)
        \/ ReadText(p)
        \/ WriteOpen(p)
        \/ WriteData(p)
        \/ LockRelease(p)
        \/ LockExists(p)
        \/ LockUnlink(p)
        \/ Respond(p)

SpecSanitize == InitSanitize /\ [][NextSanitize]_vars

(***************************************************************************)
(* Claims on the lock.                                                     *)
(***************************************************************************)
\* C1: on one note path, at most one call is between its lock acquisition
\* and its lock release at any time.
C1_MutualExclusion ==
    \A p, q \in Procs :
        (p # q /\ InCS(p) /\ InCS(q)) => task[p].path # task[q].path

\* the serial results of patching `x` with the pieces of the calls in S
RECURSIVE Serial(_, _)
Serial(x, S) ==
    IF S = {} THEN {x}
    ELSE UNION {Serial(PatchContent(x, <<Piece(k)>>), S \ {k}) : k \in S}

AllReturned == Quiescent /\ Len(log) = MaxCalls

\* C2: when the concurrent patch calls have all returned success, the note
\* is the result of applying the patches one after another in some order.
C2_NoLostPatch ==
    (AllReturned /\ \A i \in 1..Len(log) : log[i].status = 200)
        => NoteData(P1) \in Serial(<<"x">>, 1..MaxCalls)

\* C3: once the concurrent updates have all finished the note is one of the
\* submitted contents, and a read returns the content before or after some
\* update.
C3_NoTornWrite ==
    /\ (AllReturned /\ \E i \in 1..Len(log) : log[i].op = "update")
            => \E k \in 1..MaxCalls : NoteData(P1) = Content(k)
    /\ \A i \in 1..Len(log) :
            (log[i].op = "get" /\ log[i].status = 200)
                => log[i].out \in {<<"x">>} \cup {Content(k) : k \in 1..MaxCalls}

IsLock(path) == EndsWith(path[2], LockExt)

\* C10: whenever no note operation is in progress, no lock sidecar exists.
C10_NoSidecarWhenQuiet ==
    Quiescent => \A path \in DOMAIN dirents : ~IsLock(path)

\* C10, witness: all calls have returned, one of them after its guarded read
\* raised and one after a guarded write, and the sidecar is gone.
C10_Witness ==
    /\ Quiescent
    /\ \E i, j \in 1..Len(log) :
            /\ log[i].status = 500 /\ log[i].err = "read"
            /\ log[j].status = 200 /\ log[j].op \in {"update", "patch"}
    /\ \A path \in DOMAIN dirents : ~IsLock(path)

(***************************************************************************)
(* Claims on the calls of one client.                                      *)
(***************************************************************************)
Last(q) == q[Len(q)]

\* the call that begins in a step: it is answered at once (409, 404) or its
\* worker leaves "idle"
Begun ==
    IF task' = task /\ Len(log') = Len(log) + 1
    THEN [op |-> Last(log').op, id |-> Last(log').id]
    ELSE IF \E p \in Procs : task[p].pc = "idle" /\ task'[p].pc # "idle"
    THEN LET p == CHOOSE q \in Procs : task[q].pc = "idle" /\ task'[q].pc # "idle"
         IN [op |-> task'[p].op, id |-> task'[p].id]
    ELSE [op |-> "none", id |-> <<>>]

RejectedWith(code) ==
    /\ task' = task
    /\ Len(log') = Len(log) + 1
    /\ Last(log').status = code
    /\ UNCHANGED <<dirs, dirents, idata>>

\* what the claims say patch computes
Appended(existing, appended) ==
    IF existing = <<>> THEN appended
    ELSE IF appended = <<>> THEN existing
    ELSE existing \o <<LF, LF, "-", "-", "-", LF, LF>> \o appended

Wrote(r) == r.op \in {"create", "update"} /\ r.status = 200

Patched(r) == r.op = "patch" /\ r.status = 200

\* C4: create(id, content) immediately followed by read(id) returns exactly
\* the content passed to create.
C4_CreateThenRead ==
    \A i \in 1..(Len(log) - 1) :
        (/\ log[i].op = "create" /\ log[i].status = 200
         /\ log[i + 1].op = "get" /\ log[i + 1].id = log[i].id)
            => (log[i + 1].status = 200 /\ log[i + 1].out = log[i].arg)

\* C5: create on a paper whose folder holds a note (any .md file) fails
\* with 409 and changes nothing.
C5_CreateConflict ==
    [][(Begun.op = "create" /\ GlobMd(PaperDirOf(Begun.id)) # {}) => RejectedWith(409)]_vars

\* C5, witness: a create with content was refused on a folder whose note is
\* neither note.md nor named after the folder.
C5_Witness ==
    /\ GlobMd(P1) = {<<P1, XMd>>}
    /\ NoteData(P1) = <<"x">>
    /\ \E i \in 1..Len(log) :
            log[i].op = "create" /\ log[i].status = 409 /\ log[i].arg # <<>>

\* C6: read, update and patch on a paper without a note fail with 404 and
\* create no file, sidecar or directory.
C6_AbsentNotFound ==
    [][(Begun.op \in {"get", "update", "patch"} /\ GlobMd(PaperDirOf(Begun.id)) = {})
          => RejectedWith(404)]_vars

\* C6, witness: read, update and patch were each refused and the paper's
\* folder still does not exist.
C6_Witness ==
    /\ dirs = {<<>>} /\ DOMAIN dirents = {}
    /\ \A op \in {"get", "update", "patch"} :
            \E i \in 1..Len(log) : log[i].op = op /\ log[i].status = 404

C8_PatchAppends ==
    \A i \in 1..(Len(log) - 1) :
        (Wrote(log[i]) /\ Patched(log[i + 1]))
            => /\ log[i + 1].out = Appended(log[i].arg, log[i + 1].arg)
               /\ (Quiescent /\ i + 1 = Len(log))
                    => NoteData(P1) = Appended(log[i].arg, log[i + 1].arg)

\* C9: on a note X, patch(A) then patch(B) leaves the file a single update
\* to X + sep + A + sep + B would; patching an empty note with A gives A.
C9_PatchTwice ==
    /\ \A i \in 1..(Len(log) - 2) :
            (/\ Wrote(log[i]) /\ log[i].arg # <<>>
             /\ Patched(log[i + 1]) /\ Patched(log[i + 2])
             /\ Quiescent /\ i + 2 = Len(log))
                => NoteData(P1) =
                     WriteTranslate(Appended(Appended(log[i].arg, log[i + 1].arg), log[i + 2].arg))
    /\ \A i \in 1..(Len(log) - 1) :
            (/\ Wrote(log[i]) /\ log[i].arg = <<>>
             /\ Patched(log[i + 1])
             /\ Quiescent /\ i + 1 = Len(log))
                => NoteData(P1) = WriteTranslate(log[i + 1].arg)

(***************************************************************************)
(* Claims on progress.                                                     *)
(***************************************************************************)
Waiting(p) == task[p].pc = "flock"

\* C11: under fair scheduling every create, read, update or patch call that
\* waits for a note's lock acquires it and returns, also when a call that
\* held the lock failed inside its critical section.
C11_LockProgress ==
    \A p \in Procs :
        /\ Waiting(p) ~> InCS(p)
        /\ Waiting(p) ~> (task[p].pc = "idle")

\* C11, witness: a call waits for the lock while its holder has failed in
\* the critical section and not yet released it.
C11_Witness ==
    \E p, q \in Procs :
        /\ Waiting(p)
        /\ task[q].pc = "release" /\ task[q].exc = "read"
        /\ task[p].lockFd = task[q].lockFd

(***************************************************************************)
(* Claims on the paper store.                                              *)
(***************************************************************************)
\* a step in which a handler of kind `op` answered at once
Answered(op) ==
    /\ task' = task
    /\ Len(log') = Len(log) + 1
    /\ Last(log').op = op

IsPdfName(filename) ==
    /\ Len(filename) >= 4
    /\ LowerStr(SubSeq(filename, Len(filename) - 3, Len(filename))) = <<".", "p", "d", "f">>

\* C12: an upload of a PDF is answered 413 exactly when its byte length is
\* greater than max_file_size_mb * 1,048,576, and one of exactly that many
\* bytes is accepted.
C12_PayloadTooLarge ==
    \A i \in 1..Len(log) :
        (log[i].op = "upload" /\ IsPdfName(log[i].id))
            => /\ log[i].status = 413 <=> log[i].arg.size > max_file_size_mb * 1048576
               /\ log[i].arg.size = max_file_size_mb * 1048576 => log[i].status = 200

\* C13: an upload of oversized content or under a filename that does not
\* end in .pdf is refused, and a refused upload leaves directories, files
\* and their data as they were.
C13_RejectedUploadNoEffect ==
    [][Answered("upload") =>
          /\ (~IsPdfName(Last(log').id) \/ Last(log').arg.size > max_file_size_mb * 1048576)
                => Last(log').status >= 400
          /\ Last(log').status >= 400 => UNCHANGED <<dirs, dirents, idata>>
      ]_vars

\* C13, witness: an oversized upload and one under a .md name were both
\* refused on a fresh workspace, which is still empty.
C13_Witness ==
    /\ dirs = {<<>>} /\ DOMAIN dirents = {}
    /\ \E i, j \in 1..Len(log) :
          /\ log[i].op = "upload" /\ log[i].id = P1Pdf /\ log[i].arg = OverMax
          /\ log[i].status >= 400
          /\ log[j].op = "upload" /\ log[j].id = P1Md /\ log[j].status = 400

\* the stem of a filename ending in .pdf, without the characters a paper ID
\* does not keep
IdOf(filename) ==
    SelectSeq(SubSeq(filename, 1, Len(filename) - 4),
              LAMBDA c : c \in Alnum \cup {"-", "_", " "})

JustAnswered(op) == Quiescent /\ Len(log) > 0 /\ Last(log).op = op

\* C14: after a successful upload of bytes B under filename F the returned
\* ID is the sanitized stem of F, the directory of that ID exists, the PDF
\* find_pdf recognises in it holds B, and list_papers() returns the ID.
C14_UploadStores ==
    (JustAnswered("upload") /\ Last(log).status = 200)
        => LET id == Last(log).out IN
           /\ id = IdOf(Last(log).id)
           /\ get_paper_dir(id) \in dirs
           /\ \A pdf \in find_pdf(get_paper_dir(id)) :
                 pdf # NoPath /\ idata[dirents[pdf]] = Last(log).arg
           /\ id \in Range(list_papers)

\* the files of directory d with their data
FilesOf(d) == {<<pth[2], idata[dirents[pth]]>> : pth \in {q \in DOMAIN dirents : q[1] = d}}

\* C15: delete of a paper whose directory does not exist is answered 404
\* and changes nothing; otherwise the directory is removed, get of the paper
\* and read of its note then fail with 404, list_papers() no longer returns
\* the ID, and every other paper directory is as it was.
C15_DeletePaper ==
    [][\A id \in PaperIds :
          (Answered("rmpaper") /\ Last(log').id = id) =>
              IF id \notin dirs
              THEN Last(log').status = 404 /\ UNCHANGED <<dirs, dirents, idata>>
              ELSE /\ Last(log').status = 200
                   /\ id \notin dirs'
                   /\ \A pdf \in get_paper_path(id)' : ~(Exists(pdf)')
                   /\ \A note \in get_note_path(Sanitize(id))' : ~(Exists(note)')
                   /\ id \notin Range(list_papers')
                   /\ \A d \in dirs \ {<<>>, id} : d \in dirs' /\ FilesOf(d)' = FilesOf(d)
      ]_vars

\* C16: list_papers() returns exactly the subdirectories of the workspace
\* root that hold a file ending in .pdf, each once, in ascending order of
\* name; a folder with only a .md file, a plain file of the root and a
\* missing root contribute nothing.
C16_ListPapers ==
    /\ Range(list_papers) =
          {d \in dirs \ {<<>>} : <<>> \in dirs /\ \E pth \in DOMAIN dirents :
                pth[1] = d /\ EndsWith(pth[2], <<".", "p", "d", "f">>)}
    /\ \A i, j \in 1..Len(list_papers) : i < j => StrLess(list_papers[i], list_papers[j])
    /\ \A pth \in DOMAIN dirents :
          /\ pth[1] = <<>> => pth[2] \notin Range(list_papers)
          /\ (pth[1] \in dirs /\ GlobPdf(pth[1]) = {}) => pth[1] \notin Range(list_papers)
    /\ <<>> \notin dirs => list_papers = <<>>

\* C16, witness: three papers are listed, "Foo Bar" first, next to a folder
\* with only a note and a plain file in the root.
C16_Witness ==
    /\ Len(list_papers) = 3 /\ list_papers[1] = FooBar
    /\ QDir \in dirs /\ GlobPdf(QDir) = {} /\ GlobMd(QDir) # {}
    /\ Exists(<<<<>>, EPdf>>)

Ids(entries) == [i \in 1..Len(entries) |-> entries[i].id]

Parses(d) == \A pdf \in GlobPdf(d) : idata[dirents[pdf]].ok

\* C17: the paper listing succeeds with one entry per ID of list_papers(),
\* in its order; a paper whose PDF does not parse has page_count 0; a
\* search succeeds and returns every listed paper that parses and matches.
C17_ListingSurvives ==
    [][/\ Answered("list") =>
             /\ Last(log').status = 200
             /\ Ids(Last(log').out) = list_papers
             /\ \A i \in 1..Len(list_papers) :
                    ~Parses(list_papers[i]) => Last(log').out[i].page_count = 0
       /\ Answered("search") =>
             /\ Last(log').status = 200
             /\ \A d \in Range(list_papers) :
                    (Parses(d) /\ \A pdf \in GlobPdf(d) : Matches(d, pdf, LowerStr(Last(log').arg)))
                        => d \in Range(Ids(Last(log').out))
      ]_vars

\* C17, witness: a listing returned a paper with page_count 0 next to one
\* with pages, and a search returned a paper while another does not parse.
C17_Witness ==
    /\ \E i \in 1..Len(log) :
          /\ log[i].op = "list" /\ log[i].status = 200
          /\ \E a, b \in 1..Len(log[i].out) :
                log[i].out[a].page_count = 0 /\ log[i].out[b].page_count > 0
    /\ \E i \in 1..Len(log) :
          log[i].op = "search" /\ log[i].status = 200 /\ Len(log[i].out) > 0
    /\ ~Parses(C1Dir) /\ C1Dir \in Range(list_papers)

(***************************************************************************)
(* Claims on the note listing.                                             *)
(***************************************************************************)
\* C18: the note listing returns exactly the notes of the papers that have
\* a resolvable note file, of the one paper when the filter is given, with
\* total the number of entries; a note create has just written for paper P
\* appears in list(P).  (The order by modification time is not modelled.)
C18_ListNotes ==
    [][Answered("notes") =>
          LET out == Last(log').out
              filter == Last(log').id
          IN /\ Last(log').status = 200
             /\ {n.paper_id : n \in out.notes} =
                   {d \in Range(list_papers) :
                       find_note(d) # {NoPath} /\ (filter = NoFilter \/ d = filter)}
             /\ out.total = Cardinality(out.notes)
             /\ (/\ Len(log) > 0
                 /\ Last(log).op = "create" /\ Last(log).status = 200
                 /\ Last(log).id = filter)
                    => out.total >= 1
      ]_vars

(***************************************************************************)
(* Claims on the answers to errors.                                        *)
(***************************************************************************)
\* C19: when the LLM call of ask raises, a rate-limit error is answered
\* 429, an authentication error 401, a quota-exhaustion error 402 and any
\* other error 500.
C19_ErrorCategories ==
    \A i \in 1..Len(log) :
        (log[i].op = "ask" /\ log[i].id \notin Blank /\ log[i].arg # Returned)
            => log[i].status = CASE log[i].arg.kind = "rate_limit" -> 429
                                 [] log[i].arg.kind = "auth" -> 401
                                 [] log[i].arg.kind = "quota" -> 402
                                 [] OTHER -> 500

\* C20: a malformed `pages` range given to the text extraction of a stored
\* PDF, an empty or whitespace-only query given to ask, and an upload
\* under a filename that is not a PDF's are each answered with a 4xx status.
C20_InvalidInputIsClientError ==
    \A i \in 1..Len(log) :
        (\/ log[i].op = "text" /\ log[i].id = <<"e">> /\ log[i].arg \in Malformed
         \/ log[i].op = "ask" /\ log[i].id \in Blank
         \/ log[i].op = "upload" /\ ~IsPdfName(log[i].id))
            => (400 <= log[i].status /\ log[i].status < 500)


(***************************************************************************)
(* Claims on where and when a note comes to exist.                         *)
(***************************************************************************)
\* C21: a note that create has just stored for a paper whose folder held no
\* Markdown file is the file note.md of that paper's folder.
C21_CreateStoresNoteMd ==
    (JustAnswered("create") /\ Last(log).status = 200)
        => LET d == PaperDirOf(Last(log).id)
           IN GlobMd(d) = {<<d, <<"n", "o", "t", "e", ".", "m", "d">>>>}

\* C22: under any interleaving the note of the paper goes from absent to
\* present only in the write of a create call; update and patch never
\* bring a note (back) into being.
C22_OnlyCreateCreates ==
    [][(GlobMd(P1) = {} /\ GlobMd(P1)' # {})
          => \E p \in Procs :
                task[p].op = "create" /\ task[p].pc = "wopen" /\ task'[p].pc = "wdata"]_vars

\* the calls that create has answered with success
Created == {i \in 1..Len(log) : log[i].op = "create" /\ log[i].status = 200}

\* C23: of the concurrent create calls for a paper without a note at most
\* one returns success and every other one returns 409; the note then holds
\* the content of the successful call.
C23_OneCreateWins ==
    /\ Cardinality(Created) <= 1
    /\ \A i \in 1..Len(log) : i \notin Created => log[i].status = 409
    /\ (Quiescent /\ Created # {}) => \E i \in Created : NoteData(P1) = log[i].arg

(***************************************************************************)
(* Claims on identifiers and the paths they lead to.                       *)
(***************************************************************************)
\* the call that begins in this step is refused and changes nothing
Rejected ==
    /\ task' = task
    /\ Len(log') = Len(log) + 1
    /\ Last(log').status >= 400
    /\ UNCHANGED <<dirs, dirents, idata>>

\* the files that lie directly in the workspace root
InRoot == {pth \in DOMAIN dirents : pth[1] = <<>>}

\* C24: a note create or a paper upload whose identifier keeps no character
\* when sanitized is refused and makes no directory and no file; no step
\* puts a file directly into the workspace root.
C24_EmptyIdRejected ==
    [][/\ (Begun.op = "create" /\ \A i \in 1..Len(Begun.id) : Begun.id[i] = "!") => Rejected
       /\ (Answered("upload") /\ Last(log').id = <<"!", ".", "p", "d", "f">>) => Rejected
       /\ InRoot' \subseteq InRoot
      ]_vars

\* C25: every directory under the workspace root holds a PDF file.
C25_EveryFolderHasPdf ==
    \A d \in dirs \ {<<>>} :
        \E pth \in DOMAIN dirents : pth[1] = d /\ EndsWith(pth[2], <<".", "p", "d", "f">>)

\* the call a step of the one client belongs to
Acting ==
    IF task[First].pc # "idle" THEN [op |-> task[First].op, id |-> task[First].id] ELSE Begun

\* the directory the claims give a call: the workspace root's subdirectory
\* named by the sanitized identifier (of an upload, the stem of its filename)
Home(call) ==
    LET kept == {"-", "_", " "} \cup Alnum
        raw == IF call.op = "upload" THEN Stem(call.id) ELSE call.id
    IN SelectSeq(raw, LAMBDA c : c \in kept)

\* the paths a step creates, removes or writes
Changed ==
    {pth \in DOMAIN dirents \cup DOMAIN dirents' :
        \/ pth \notin DOMAIN dirents
        \/ pth \notin DOMAIN dirents'
        \/ idata[dirents[pth]] # idata'[dirents'[pth]]}

\* C26: whatever identifier the client supplies, a step of a note-store or
\* paper-store call creates, writes and removes only files of the directory
\* of the sanitized identifier, and removes at most that directory, never
\* the workspace root.
C26_StaysInsidePaperDir ==
    [][/\ \A pth \in Changed : pth[1] = Home(Acting)
       /\ dirs \ dirs' \subseteq {Home(Acting)} \ {<<>>}
      ]_vars

(***************************************************************************)
(* Claims on the resolver's discovery rules.                               *)
(***************************************************************************)
\* the files of directory d whose names end in ext
Ending(d, ext) == {pth \in DOMAIN dirents : pth[1] = d /\ EndsWith(pth[2], ext)}

\* the file of S that is first by name
Least(S) == CHOOSE f \in S : \A g \in S \ {f} : StrLess(f[2], g[2])

\* C27: find_pdf returns absent exactly when the directory does not exist
\* or holds no .pdf file, and else the .pdf file of the directory that is
\* first by name; two calls on an unchanged directory return the same.
C27_FindPdfLeast ==
    /\ \A i \in 1..Len(log) :
          log[i].op = "find_pdf" =>
              LET pdfs == Ending(log[i].id, <<".", "p", "d", "f">>)
              IN IF log[i].id \notin dirs \/ pdfs = {}
                 THEN log[i].out = <<>>
                 ELSE log[i].out = Least(pdfs)
    /\ \A i, j \in 1..Len(log) :
          (log[i].op = "find_pdf" /\ log[j].op = "find_pdf") => log[i].out = log[j].out

\* the note the claimed priority picks in directory d: note.md, else the
\* .md file named after the directory, else the first .md file by name
Canonical(d) ==
    LET mds == Ending(d, <<".", "m", "d">>)
        named == {f \in mds : f[2] = d \o <<".", "m", "d">>}
    IN IF d \notin dirs THEN <<>>
       ELSE IF <<d, <<"n", "o", "t", "e", ".", "m", "d">>>> \in DOMAIN dirents
       THEN <<d, <<"n", "o", "t", "e", ".", "m", "d">>>>
       ELSE IF named # {} THEN Least(named)
       ELSE IF mds # {} THEN Least(mds)
       ELSE <<>>

\* C28: find_note returns the one note the priority picks, which the set of
\* file names of the directory determines, and never a .lock sidecar.
C28_FindNotePriority ==
    \A i \in 1..Len(log) :
        log[i].op = "find_note" =>
            /\ log[i].out = Canonical(log[i].id)
            /\ log[i].out # <<>> => ~EndsWith(log[i].out[2], <<".", "l", "o", "c", "k">>)

\* the characters of raw that are letters, digits, '-', '_' or space, in
\* their order
RECURSIVE Kept(_)
Kept(raw) ==
    IF raw = <<>> THEN <<>>
    ELSE IF Head(raw) \in Alnum \cup {"-", "_", " "} THEN <<Head(raw)>> \o Kept(Tail(raw))
    ELSE Kept(Tail(raw))

\* C29: sanitizing returns the kept characters of its input in their
\* order, the empty string for the empty string, and its own input when
\* that is a result of sanitizing; note create, note read and paper upload
\* act on the folder named by the kept characters of the identifier they
\* are given.
C29_Sanitize ==
    \A i \in 1..Len(log) :
        /\ log[i].op = "sanitize" =>
              /\ log[i].out = Kept(log[i].id)
              /\ log[i].id = <<>> => log[i].out = <<>>
              /\ (i > 1 /\ log[i].id = log[i - 1].out) => log[i].out = log[i].id
        /\ log[i].op = "create" =>
              /\ log[i].status = 409 <=> Kept(log[i].id) = A1
              /\ log[i].status = 200 =>
                    Exists(<<Kept(log[i].id), Kept(log[i].id) \o <<".", "m", "d">>>>)
        /\ log[i].op = "get" => (log[i].status = 200 <=> Kept(log[i].id) = A1)
        /\ log[i].op = "upload" =>
              /\ log[i].status = 200
              /\ log[i].out = Kept(Stem(log[i].id))
              /\ Exists(<<log[i].out, IF log[i].out = A1 THEN A1 \o PdfExt ELSE log[i].out \o PdfExt>>)

\* C29, witness: an identifier with a separator, a dot and a kept
\* character was sanitized, and then its result.
C29_Witness ==
    /\ Len(log) = 2
    /\ log[1].op = "sanitize" /\ log[1].id = <<"/", ".", "a">> /\ log[1].out = <<"a">>
    /\ log[2].op = "sanitize" /\ log[2].id = <<"a">> /\ log[2].out = <<"a">>

(***************************************************************************)
(* Claims on failed calls.                                                 *)
(***************************************************************************)
\* C30: a call that answers with an error has written nothing to the note:
\* of concurrent updates, each with a content no other call has, the note
\* never holds the content of one that failed.
C30_FailedCallWroteNothing ==
    \A i \in 1..Len(log) :
        (log[i].op = "update" /\ log[i].status >= 400)
            => NoteData(P1) # WriteTranslate(log[i].arg)

====
